---- MODULE Spec2Model ----
(***************************************************************************)
(* The Hetzner node group of the cluster autoscaler                        *)
(* (cloudprovider/hetzner/hetzner_node_group.go): IncreaseSize,            *)
(* DeleteNodes, DecreaseTargetSize, TargetSize, Nodes and their helpers,   *)
(* run by concurrent callers against a provider whose requests may fail.   *)
(***************************************************************************)
EXTENDS Integers, FiniteSets, Sequences, TLC

\* ------------------------------------------------------------------ bounds
\* Largest delta of an IncreaseSize / most nodes of a DeleteNodes call.
MaxDelta == 2
\* Largest maxSize a node group is configured with.
MaxSize == 2
\* Most servers the provider lets a project hold; a create beyond it fails.
MaxServers == 3

Callers == {"a", "b"}
Pools == {"p1", "p2"}
Regions == {"fsn1", "nbg1"}
NoOwner == "none"
\* The largest targetSize the model lets the fallback of resetTargetSize reach.
MaxTarget == MaxSize + MaxDelta

VARIABLES
    callers,      \* the goroutines of the autoscaler that call into node groups
    nodeGroups,   \* manager.nodeGroups: the node groups that exist
    minSize,      \* hetznerNodeGroup.minSize, per node group
    maxSize,      \* hetznerNodeGroup.maxSize, per node group
    targetSize,   \* hetznerNodeGroup.targetSize, per node group
    region,       \* hetznerNodeGroup.region, per node group
    mutex,        \* *clusterUpdateMutex: its holder, or NoOwner
    servers,      \* the provider: how many servers carry each node group's label
    clean,        \* no DecreaseTargetSize call and no failed re-list so far
    call          \* per caller: the call it is in, its locals and goroutines

vars == <<callers, nodeGroups, minSize, maxSize, targetSize, region, mutex, servers, clean, call>>

\* ----------------------------------------------------------------- helpers
\* manager.allServers(n.id): the provider's servers labelled with the group,
\* as the list of their labels.
allServers(srv, p) == [i \in 1..srv[p] |-> p]

\* Every server of the project.
Total(srv) == srv["p1"] + srv["p2"]

\* A goroutine of a call: where it is, the value it read of the captured
\* targetSize, and the stream and result of its wait.
NoUnit == [pc |-> "done", tmp |-> 0, stream |-> "none", outcome |-> "none"]

NoUnits == [i \in {} |-> NoUnit]

\* A caller outside any call. Of a call it keeps: the operation and its
\* arguments (pool, delta, len(nodes)), the local targetSize (ts), its goroutines
\* (units) and its result; and, for the properties, the targetSize it read
\* first (t0), the number of servers of the pool when it took the mutex (c0),
\* how many goroutines issued their create or delete request (tried), how
\* many failed and how many of these left their server at the provider (kept), what the refill of the servers cache and the list of
\* resetTargetSize returned, and what the server type lookup returned. Of a
\* TargetSize call it keeps the value returned (ts) and, when the caller had
\* just made the same call (again), the value that call returned (t0). Of a
\* Nodes call it keeps the statuses of the servers it found (vms) and the
\* statuses of the instances it returns.
NoLookup == [err |-> FALSE, pricings |-> {}]

Idle == [op |-> "none", pc |-> "idle", pool |-> "p1", delta |-> 0, nodes |-> 0,
         ts |-> 0, units |-> NoUnits, result |-> "none", t0 |-> 0, c0 |-> 0,
         tried |-> 0, failed |-> 0, kept |-> 0, refill |-> "none", relist |-> "none",
         lookup |-> NoLookup, again |-> FALSE, vms |-> <<>>, instances |-> <<>>]

\* Mutant of WaitDone: the wait ends when the first goroutine has finished.
WaitDoneFirst(c) == \E i \in DOMAIN call[c].units : call[c].units[i].pc = "done"

\* waitGroup.Wait(): every goroutine of the call has finished.
WaitDone(c) == \A i \in DOMAIN call[c].units : call[c].units[i].pc = "done"

\* Goroutines of the call that are running.
InFlight(c) == {i \in DOMAIN call[c].units : call[c].units[i].pc # "done"}

\* Mutant of Lock: the mutex is taken without waiting for it to be free.
LockNoWait(c) == mutex' = c

\* sync.Mutex.Lock: blocks until the mutex is free, then holds it.
Lock(c) == mutex = NoOwner /\ mutex' = c

\* Mutant of Unlock: the mutex is released at the end of a successful call
\* only, as without the defer.
UnlockOnSuccess(c) ==
    mutex' = IF mutex = c /\ call[c].result = "ok" THEN NoOwner ELSE mutex

\* The deferred sync.Mutex.Unlock of a call, if it got as far as locking.
Unlock(c) == mutex' = IF mutex = c THEN NoOwner ELSE mutex

\* ------------------------------------------------------------------- Init
\* One node group within its sizes, with as many servers as its targetSize.
InitOne ==
    /\ nodeGroups = {"p1"}
    /\ minSize \in [Pools -> 0..1]
    /\ minSize["p2"] = 0
    /\ maxSize = [p \in Pools |-> IF p = "p1" THEN MaxSize ELSE 0]
    /\ minSize["p1"] <= maxSize["p1"]
    /\ targetSize \in [Pools -> 0..MaxSize]
    /\ targetSize["p2"] = 0
    /\ minSize["p1"] <= targetSize["p1"] /\ targetSize["p1"] <= maxSize["p1"]
    /\ targetSize["p1"] <= MaxServers

\* Two empty node groups that share the mutex.
InitTwo ==
    /\ nodeGroups = {"p1", "p2"}
    /\ minSize = [p \in Pools |-> 0]
    /\ maxSize = [p \in Pools |-> 1]
    /\ targetSize = [p \in Pools |-> 0]

\* Either one caller, or two callers that each ask for one server at a time.
Init ==
    /\ \/ InitOne /\ callers \in {{"a"}, Callers}
       \/ InitTwo /\ callers = Callers
    /\ region = [p \in Pools |-> "fsn1"]
    /\ mutex = NoOwner
    /\ servers = targetSize
    /\ clean = TRUE
    /\ call = [c \in Callers |-> Idle]

Config == <<callers, nodeGroups, minSize, maxSize, region>>

\* ------------------------------------------------------- pure functions
\* IncreaseSize, line 87: the delta check.
DeltaRejected(delta) == delta <= 0

\* Mutant of TooLarge: the size check is off by one.
TooLargeOffByOne(size, p) == size > maxSize[p] + 1

\* IncreaseSize, line 92: the size check against MaxSize().
TooLarge(size, p) == size > maxSize[p]

\* Mutant of TooSmall: the size is checked against zero, not MinSize().
TooSmallBelowZero(size, p) == size < 0

\* DeleteNodes, line 142: the size check against MinSize().
TooSmall(size, p) == size < minSize[p]

\* Mutant of serverTypeAvailable: any pricing counts, whatever its location.
serverTypeAvailableAnywhere(lookup, rgn) ==
    IF lookup.err THEN [available |-> FALSE, err |-> TRUE]
    ELSE [available |-> lookup.pricings # {}, err |-> FALSE]

\* serverTypeAvailable: lookup is what cachedServerType.getServerType gave,
\* an error or a server type with its pricings (the locations it is sold in).
serverTypeAvailable(lookup, rgn) ==
    IF lookup.err THEN [available |-> FALSE, err |-> TRUE]
    ELSE IF \E price \in lookup.pricings : price = rgn
         THEN [available |-> TRUE, err |-> FALSE]
         ELSE [available |-> FALSE, err |-> FALSE]

Lookups == [err : BOOLEAN, pricings : SUBSET Regions]

\* What the error channel of WatchProgress does before the timeout: it is
\* closed with nothing sent, it sends nil, it sends an error, or it stays
\* open and silent.
Streams == {"closed", "nil", "error", "silent"}

\* Mutant of Receive: a closed channel is taken for an error.
ReceiveClosedIsError(stream) == IF stream \in {"error", "closed"} THEN "error" ELSE "nil"

\* err := <-errChan: a closed channel yields the zero value, nil.
Receive(stream) == IF stream = "error" THEN "error" ELSE "nil"

\* waitForServerAction: the select over errChan and time.After.
waitForServerAction(stream) ==
    IF stream = "silent" THEN "TimedOut"
    ELSE IF Receive(stream) # "nil" THEN "Failed"
    ELSE "Success"

\* Mutant of resetTargetSize: the expected delta is applied, the list ignored.
resetTargetSizeByDelta(cur, listed, err, expectedDelta) == cur + expectedDelta

\* resetTargetSize: the new targetSize from the current one, the outcome of
\* manager.allServers and the expected delta.
resetTargetSize(cur, listed, err, expectedDelta) ==
    IF err THEN cur - expectedDelta ELSE Len(listed)

\* ------------------------------------------------------------ IncreaseSize
\* Lines 86-96: the checks made before the mutex is taken, and the local
\* targetSize computed from the field.
GrowCall(c, p, delta) ==
    /\ call[c].pc = "idle"
    /\ LET size == targetSize[p] + delta
           rec  == [Idle EXCEPT !.op = "Grow", !.pool = p, !.delta = delta]
       IN  call' = [call EXCEPT ![c] =
               IF DeltaRejected(delta)
               THEN [rec EXCEPT !.pc = "ret", !.result = "errDelta"]
               ELSE IF TooLarge(size, p)
               THEN [rec EXCEPT !.pc = "ret", !.result = "errMax"]
               ELSE [rec EXCEPT !.pc = "lock", !.ts = size, !.t0 = targetSize[p]]]
    /\ UNCHANGED <<Config, targetSize, mutex, servers, clean>>

\* Lines 98-101: take the mutex and look the server type up.
GrowLock(c) ==
    /\ call[c].op = "Grow" /\ call[c].pc = "lock"
    /\ Lock(c)
    /\ \E lookup \in Lookups :
        call' = [call EXCEPT ![c] = [@ EXCEPT !.pc = "checked", !.lookup = lookup]]
    /\ UNCHANGED <<Config, targetSize, servers, clean>>

\* Lines 101-120: return an error unless the server type is sold in the
\* region, else start one goroutine per server to create.
GrowStart(c) ==
    /\ call[c].op = "Grow" /\ call[c].pc = "checked"
    /\ LET r == serverTypeAvailable(call[c].lookup, region[call[c].pool])
       IN  call' = [call EXCEPT ![c] =
               IF r.err THEN [@ EXCEPT !.pc = "ret", !.result = "errLookup"]
               ELSE IF ~r.available
               THEN [@ EXCEPT !.pc = "ret", !.result = "errUnavailable"]
               ELSE [@ EXCEPT !.pc = "wait", !.lookup = NoLookup,
                              !.c0 = Len(allServers(servers, call[c].pool)),
                              !.units = [i \in 1..call[c].delta |->
                                            [NoUnit EXCEPT !.pc = "create"]]]]
    /\ UNCHANGED <<Config, targetSize, mutex, servers, clean>>

\* createServer, line 410: the create request. The provider refuses it
\* (always so at its limit of MaxServers) or creates a server labelled with
\* the node group.
UnitCreate(c, i) ==
    /\ call[c].op = "Grow" /\ call[c].pc = "wait"
    /\ i \in DOMAIN call[c].units /\ call[c].units[i].pc = "create"
    /\ \E ok \in BOOLEAN :
        IF ok /\ Total(servers) < MaxServers
        THEN /\ servers' = [servers EXCEPT ![call[c].pool] = @ + 1]
             /\ call' = [call EXCEPT ![c].units[i] = [@ EXCEPT !.pc = "await"],
                                     ![c].tried = @ + 1]
        ELSE /\ call' = [call EXCEPT ![c].units[i] =
                            [@ EXCEPT !.pc = "decRead"],
                                  ![c].tried = @ + 1,
                                  ![c].failed = @ + 1]
             /\ UNCHANGED servers
    /\ UNCHANGED <<Config, targetSize, mutex, clean>>

\* createServer, line 417: wait for the create action.
UnitAwait(c, i) ==
    /\ call[c].op = "Grow" /\ call[c].pc = "wait"
    /\ i \in DOMAIN call[c].units /\ call[c].units[i].pc = "await"
    /\ \E stream \in Streams :
        call' = [call EXCEPT ![c].units[i] =
                    [@ EXCEPT !.pc = "awaited", !.stream = stream,
                              !.outcome = waitForServerAction(stream)]]
    /\ UNCHANGED <<Config, targetSize, mutex, servers, clean>>

\* Mutant of UnitCleanup: on an error of the wait the server is left alone.
UnitCleanupNoDelete(c, i) ==
    /\ call[c].op = "Grow" /\ call[c].pc = "wait"
    /\ i \in DOMAIN call[c].units /\ call[c].units[i].pc = "awaited"
    /\ call' = IF call[c].units[i].outcome = "Success"
               THEN [call EXCEPT ![c].units[i] = NoUnit]
               ELSE [call EXCEPT ![c].units[i] = [NoUnit EXCEPT !.pc = "decRead"],
                                 ![c].failed = @ + 1]
    /\ UNCHANGED <<Config, targetSize, mutex, servers, clean>>

\* Mutant of UnitCleanup: the server is deleted when the action failed, and
\* left alone when the wait timed out.
UnitCleanupNotOnTimeout(c, i) ==
    /\ call[c].op = "Grow" /\ call[c].pc = "wait"
    /\ i \in DOMAIN call[c].units /\ call[c].units[i].pc = "awaited"
    /\ IF call[c].units[i].outcome = "Success"
       THEN /\ call' = [call EXCEPT ![c].units[i] = NoUnit]
            /\ UNCHANGED servers
       ELSE IF call[c].units[i].outcome = "TimedOut"
       THEN /\ call' = [call EXCEPT ![c].units[i] = [NoUnit EXCEPT !.pc = "decRead"],
                                    ![c].failed = @ + 1]
            /\ UNCHANGED servers
       ELSE \E deleted \in BOOLEAN :
            /\ servers' = IF deleted
                          THEN [servers EXCEPT ![call[c].pool] = @ - 1]
                          ELSE servers
            /\ call' = [call EXCEPT ![c].units[i] = [NoUnit EXCEPT !.pc = "decRead"],
                                    ![c].failed = @ + 1,
                                    ![c].kept = IF deleted THEN @ ELSE @ + 1]
    /\ UNCHANGED <<Config, targetSize, mutex, clean>>

\* createServer, lines 418-423: on an error of the wait, delete the server,
\* ignore what the delete returns, and return the error.
UnitCleanup(c, i) ==
    /\ call[c].op = "Grow" /\ call[c].pc = "wait"
    /\ i \in DOMAIN call[c].units /\ call[c].units[i].pc = "awaited"
    /\ IF call[c].units[i].outcome = "Success"
       THEN /\ call' = [call EXCEPT ![c].units[i] = NoUnit]
            /\ UNCHANGED servers
       ELSE \E deleted \in BOOLEAN :
            /\ servers' = IF deleted
                          THEN [servers EXCEPT ![call[c].pool] = @ - 1]
                          ELSE servers
            /\ call' = [call EXCEPT ![c].units[i] = [NoUnit EXCEPT !.pc = "decRead"],
                                    ![c].failed = @ + 1,
                                    ![c].kept = IF deleted THEN @ ELSE @ + 1]
    /\ UNCHANGED <<Config, targetSize, mutex, clean>>

\* Line 116, targetSize--: the goroutine reads the captured variable ...
UnitDecRead(c, i) ==
    /\ call[c].op = "Grow" /\ call[c].pc = "wait"
    /\ i \in DOMAIN call[c].units /\ call[c].units[i].pc = "decRead"
    /\ call' = [call EXCEPT ![c].units[i] =
                   [@ EXCEPT !.pc = "decWrite", !.tmp = call[c].ts]]
    /\ UNCHANGED <<Config, targetSize, mutex, servers, clean>>

\* ... and writes it back, one less; no lock orders the goroutines.
UnitDecWrite(c, i) ==
    /\ call[c].op = "Grow" /\ call[c].pc = "wait"
    /\ i \in DOMAIN call[c].units /\ call[c].units[i].pc = "decWrite"
    /\ call' = [call EXCEPT ![c].ts = call[c].units[i].tmp - 1,
                            ![c].units[i] = NoUnit]
    /\ UNCHANGED <<Config, targetSize, mutex, servers, clean>>

\* Lines 121-123: waitGroup.Wait(), then the local targetSize is stored.
GrowWrite(c) ==
    /\ call[c].op = "Grow" /\ call[c].pc = "wait"
    /\ WaitDone(c)
    /\ targetSize' = [targetSize EXCEPT ![call[c].pool] = call[c].ts]
    /\ call' = [call EXCEPT ![c].pc = "refresh"]
    /\ UNCHANGED <<Config, mutex, servers, clean>>

\* Mutant of GrowRefresh: an error of the cache refill is returned.
GrowRefreshReturnsError(c) ==
    /\ call[c].op = "Grow" /\ call[c].pc = "refresh"
    /\ \E ok \in BOOLEAN :
        call' = [call EXCEPT ![c].pc = "ret",
                             ![c].result = IF ok THEN "ok" ELSE "errRefill",
                             ![c].refill = IF ok THEN "ok" ELSE "failed"]
    /\ UNCHANGED <<Config, targetSize, mutex, servers, clean>>

\* Lines 125-130: refill the servers cache; an error is logged only.
GrowRefresh(c) ==
    /\ call[c].op = "Grow" /\ call[c].pc = "refresh"
    /\ \E ok \in BOOLEAN :
        call' = [call EXCEPT ![c].pc = "ret", ![c].result = "ok",
                             ![c].refill = IF ok THEN "ok" ELSE "failed"]
    /\ UNCHANGED <<Config, targetSize, mutex, servers, clean>>

\* ------------------------------------------------------------- DeleteNodes
\* The caller names nodes of the node group, as many as len(nodes).
ShrinkCall(c, p, nodes) ==
    /\ call[c].pc = "idle"
    /\ nodes <= servers[p]
    /\ call' = [call EXCEPT ![c] =
                   [Idle EXCEPT !.op = "Shrink", !.pool = p, !.nodes = nodes,
                                !.pc = "lock"]]
    /\ UNCHANGED <<Config, targetSize, mutex, servers, clean>>

\* Lines 138-160: take the mutex, check the size against MinSize(), and
\* start one goroutine per node.
ShrinkLock(c) ==
    /\ call[c].op = "Shrink" /\ call[c].pc = "lock"
    /\ Lock(c)
    /\ LET p    == call[c].pool
           size == targetSize[p] - call[c].nodes
       IN  call' = [call EXCEPT ![c] =
               IF TooSmall(size, p)
               THEN [@ EXCEPT !.pc = "ret", !.result = "errMin", !.t0 = targetSize[p]]
               ELSE [@ EXCEPT !.pc = "wait", !.ts = size, !.t0 = targetSize[p],
                              !.c0 = Len(allServers(servers, p)),
                              !.units = [i \in 1..call[c].nodes |->
                                            [NoUnit EXCEPT !.pc = "delete"]]]]
    /\ UNCHANGED <<Config, targetSize, servers, clean>>

\* Mutant of UnitDelete: a failed delete cancels the deletes not yet issued.
UnitDeleteAbortsSiblings(c, i) ==
    /\ call[c].op = "Shrink" /\ call[c].pc = "wait"
    /\ i \in DOMAIN call[c].units /\ call[c].units[i].pc = "delete"
    /\ \E ok \in BOOLEAN :
        IF ok /\ servers[call[c].pool] > 0
        THEN /\ servers' = [servers EXCEPT ![call[c].pool] = @ - 1]
             /\ call' = [call EXCEPT ![c].units[i] = NoUnit, ![c].tried = @ + 1]
        ELSE /\ call' = [call EXCEPT ![c].units = [j \in DOMAIN @ |-> NoUnit],
                                     ![c].tried = @ + 1,
                                     ![c].failed = @ + 1]
             /\ UNCHANGED servers
    /\ UNCHANGED <<Config, targetSize, mutex, clean>>

\* Line 153, manager.deleteByNode: the provider deletes the server, or the
\* delete fails (always so when no server of the group is left).
UnitDelete(c, i) ==
    /\ call[c].op = "Shrink" /\ call[c].pc = "wait"
    /\ i \in DOMAIN call[c].units /\ call[c].units[i].pc = "delete"
    /\ \E ok \in BOOLEAN :
        IF ok /\ servers[call[c].pool] > 0
        THEN /\ servers' = [servers EXCEPT ![call[c].pool] = @ - 1]
             /\ call' = [call EXCEPT ![c].units[i] = NoUnit, ![c].tried = @ + 1]
        ELSE /\ call' = [call EXCEPT ![c].units[i] = NoUnit, ![c].tried = @ + 1,
                                     ![c].failed = @ + 1]
             /\ UNCHANGED servers
    /\ UNCHANGED <<Config, targetSize, mutex, clean>>

\* Lines 161-170: waitGroup.Wait(), refill the servers cache, then
\* resetTargetSize(-len(nodes)) with what manager.allServers returns (the
\* model lets the list fail only while the fallback stays within MaxTarget).
ShrinkReset(c) ==
    /\ call[c].op = "Shrink" /\ call[c].pc = "wait"
    /\ WaitDone(c)
    /\ \E ok \in BOOLEAN, err \in BOOLEAN :
        LET p == call[c].pool
            k == call[c].nodes
        IN  /\ err => targetSize[p] + k <= MaxTarget
            /\ targetSize' = [targetSize EXCEPT ![p] =
                   resetTargetSize(targetSize[p], allServers(servers, p), err, -k)]
            /\ call' = [call EXCEPT ![c].pc = "ret", ![c].result = "ok",
                                    ![c].refill = IF ok THEN "ok" ELSE "failed",
                                    ![c].relist = IF err THEN "failed" ELSE "ok"]
            /\ clean' = (clean /\ ~err)
    /\ UNCHANGED <<Config, mutex, servers>>

\* ------------------------------------------------------ DecreaseTargetSize
\* Line 179: the field is read and delta added ... (the model stops the
\* decrease at zero to keep targetSize in a finite range)
DecreaseCall(c, p, delta) ==
    /\ call[c].pc = "idle"
    /\ targetSize[p] + delta >= 0
    /\ call' = [call EXCEPT ![c] =
                   [Idle EXCEPT !.op = "Decrease", !.pool = p, !.delta = delta,
                                !.pc = "store", !.t0 = targetSize[p],
                                !.ts = targetSize[p] + delta]]
    /\ clean' = FALSE
    /\ UNCHANGED <<Config, targetSize, mutex, servers>>

\* Mutant of DecreaseStore: the store is made under the mutex.
DecreaseStoreLocked(c) ==
    /\ call[c].op = "Decrease" /\ call[c].pc = "store"
    /\ Lock(c)
    /\ targetSize' = [targetSize EXCEPT ![call[c].pool] = call[c].ts]
    /\ call' = [call EXCEPT ![c].pc = "ret", ![c].result = "ok"]
    /\ UNCHANGED <<Config, servers, clean>>

\* ... and the sum is stored; no lock is taken.
DecreaseStore(c) ==
    /\ call[c].op = "Decrease" /\ call[c].pc = "store"
    /\ targetSize' = [targetSize EXCEPT ![call[c].pool] = call[c].ts]
    /\ call' = [call EXCEPT ![c].pc = "ret", ![c].result = "ok"]
    /\ UNCHANGED <<Config, mutex, servers, clean>>

\* -------------------------------------------------------------- TargetSize
\* Mutant of TargetSize: the read sets the field to the provider's count.
TargetSizeResyncs(c, p) ==
    /\ \/ call[c].pc = "idle"
       \/ call[c].op = "TargetSize" /\ call[c].pc = "ret" /\ call[c].pool = p
    /\ call' = [call EXCEPT ![c] =
                   [Idle EXCEPT !.op = "TargetSize", !.pool = p, !.pc = "ret",
                                !.result = "ok", !.ts = targetSize[p],
                                !.again = (call[c].op = "TargetSize"),
                                !.t0 = IF call[c].op = "TargetSize"
                                       THEN call[c].ts ELSE targetSize[p]]]
    /\ targetSize' = [targetSize EXCEPT ![p] = Len(allServers(servers, p))]
    /\ UNCHANGED <<Config, mutex, servers, clean>>

\* Lines 79-81: the field is returned; no lock is taken. A caller calls it
\* when it is in no call, or again as soon as the same call has returned.
TargetSize(c, p) ==
    /\ \/ call[c].pc = "idle"
       \/ call[c].op = "TargetSize" /\ call[c].pc = "ret" /\ call[c].pool = p
    /\ call' = [call EXCEPT ![c] =
                   [Idle EXCEPT !.op = "TargetSize", !.pool = p, !.pc = "ret",
                                !.result = "ok", !.ts = targetSize[p],
                                !.again = (call[c].op = "TargetSize"),
                                !.t0 = IF call[c].op = "TargetSize"
                                       THEN call[c].ts ELSE targetSize[p]]]
    /\ UNCHANGED <<Config, targetSize, mutex, servers, clean>>

\* ------------------------------------------------------------------- Nodes
\* The statuses a server of the provider is in (hcloud.ServerStatus), one
\* that toInstanceStatus does not name among them, and the empty status.
ServerStatuses == {"initializing", "starting", "running", "off", "stopping",
                   "deleting", "migrating", ""}

\* The *InstanceStatus nil, and a new InstanceStatus{}: its State is the zero
\* value, which is none of the instance states, and it has no ErrorInfo.
NilStatus == [nil |-> TRUE, State |-> "unset", ErrorInfo |-> FALSE]

NewStatus == [nil |-> FALSE, State |-> "unset", ErrorInfo |-> FALSE]

\* toInstanceStatus, lines 290-315. A case of a Go switch does not fall
\* through: the cases with no statement leave the new status as it is.
toInstanceStatus(status) ==
    IF status = "" THEN NilStatus
    ELSE CASE status = "initializing" -> NewStatus
           [] status = "starting" -> [NewStatus EXCEPT !.State = "InstanceCreating"]
           [] status = "running" -> [NewStatus EXCEPT !.State = "InstanceRunning"]
           [] status = "off" -> NewStatus
           [] status = "deleting" -> NewStatus
           [] status = "stopping" -> [NewStatus EXCEPT !.State = "InstanceDeleting"]
           [] OTHER -> [NewStatus EXCEPT !.ErrorInfo = TRUE]

\* toInstance, lines 279-284: the status of the instance made of a server.
toInstance(vm) == toInstanceStatus(vm)

\* Nodes, lines 196-208: the servers of the node group are taken from the
\* cache, each in some status, and turned into instances; an error of the
\* cache is returned.
Nodes(c, p) ==
    /\ call[c].pc = "idle"
    /\ \E err \in BOOLEAN : \E vms \in [1..servers[p] -> ServerStatuses] :
        call' = [call EXCEPT ![c] =
            IF err
            THEN [Idle EXCEPT !.op = "Nodes", !.pool = p, !.pc = "ret",
                              !.result = "errServers"]
            ELSE [Idle EXCEPT !.op = "Nodes", !.pool = p, !.pc = "ret",
                              !.result = "ok", !.vms = vms,
                              !.instances = [i \in DOMAIN vms |-> toInstance(vms[i])]]]
    /\ UNCHANGED <<Config, targetSize, mutex, servers, clean>>

\* ------------------------------------------------------------------ return
\* The call returns its result; a deferred Unlock runs if the mutex was taken.
Return(c) ==
    /\ call[c].pc = "ret"
    /\ Unlock(c)
    /\ call' = [call EXCEPT ![c] = Idle]
    /\ UNCHANGED <<Config, targetSize, servers, clean>>

\* The node groups a caller works on: with two node groups, each caller has
\* its own.
GroupsOf(c) == IF nodeGroups = Pools
               THEN {IF c = "a" THEN "p1" ELSE "p2"}
               ELSE nodeGroups

\* The most servers one call asks to create or delete.
MaxUnits == IF Cardinality(callers) = 1 THEN MaxDelta ELSE 1

Deltas == (0 - 1)..MaxUnits

Units == 1..MaxUnits

Next ==
    \/ \E c \in callers : \E p \in GroupsOf(c), delta \in Deltas : GrowCall(c, p, delta)
    \/ \E c \in callers : GrowLock(c)
    \/ \E c \in callers : GrowStart(c)
    \/ \E c \in callers, i \in Units : UnitCreate(c, i)
    \/ \E c \in callers, i \in Units : UnitAwait(c, i)
    \/ \E c \in callers, i \in Units : UnitCleanup(c, i)
    \/ \E c \in callers, i \in Units : UnitDecRead(c, i)
    \/ \E c \in callers, i \in Units : UnitDecWrite(c, i)
    \/ \E c \in callers : GrowWrite(c)
    \/ \E c \in callers : GrowRefresh(c)
    \/ \E c \in callers : \E p \in GroupsOf(c), nodes \in 1..MaxUnits : ShrinkCall(c, p, nodes)
    \/ \E c \in callers : ShrinkLock(c)
    \/ \E c \in callers, i \in Units : UnitDelete(c, i)
    \/ \E c \in callers : ShrinkReset(c)
    \/ \E c \in callers : \E p \in GroupsOf(c), delta \in (0 - MaxUnits)..(0 - 1) : DecreaseCall(c, p, delta)
    \/ \E c \in callers : DecreaseStore(c)
    \/ \E c \in callers : \E p \in GroupsOf(c) : TargetSize(c, p)
    \/ \E c \in callers : Return(c)

Spec == Init /\ [][Next]_vars

\* Callers that only list the instances of their node groups.
NodesNext ==
    \/ \E c \in callers : \E p \in GroupsOf(c) : Nodes(c, p)
    \/ \E c \in callers : Return(c)

NodesSpec == Init /\ [][NodesNext]_vars

\* One caller that only makes IncreaseSize calls and one that makes
\* IncreaseSize and DecreaseTargetSize calls.
GrowDecreaseNext ==
    \/ \E c \in callers : \E p \in GroupsOf(c), delta \in Deltas : GrowCall(c, p, delta)
    \/ \E c \in callers : GrowLock(c)
    \/ \E c \in callers : GrowStart(c)
    \/ \E c \in callers, i \in Units : UnitCreate(c, i)
    \/ \E c \in callers, i \in Units : UnitAwait(c, i)
    \/ \E c \in callers, i \in Units : UnitCleanup(c, i)
    \/ \E c \in callers, i \in Units : UnitDecRead(c, i)
    \/ \E c \in callers, i \in Units : UnitDecWrite(c, i)
    \/ \E c \in callers : GrowWrite(c)
    \/ \E c \in callers : GrowRefresh(c)
    \/ \E c \in callers \ {"a"} : \E p \in GroupsOf(c), delta \in (0 - MaxUnits)..(0 - 1) : DecreaseCall(c, p, delta)
    \/ \E c \in callers : DecreaseStore(c)
    \/ \E c \in callers : Return(c)

\* Two callers on one node group.
GrowDecreaseInit == Init /\ callers = Callers /\ nodeGroups = {"p1"}

GrowDecreaseSpec == GrowDecreaseInit /\ [][GrowDecreaseNext]_vars

\* A step of a call that is under way, other than taking the mutex: the
\* call's own statements, its goroutines, a provider request that returns, a
\* wait that ends by its deadline (line 454), the return.
Step(c) ==
    \/ GrowStart(c)
    \/ \E i \in Units : \/ UnitCreate(c, i)
                        \/ UnitAwait(c, i)
                        \/ UnitCleanup(c, i)
                        \/ UnitDecRead(c, i)
                        \/ UnitDecWrite(c, i)
                        \/ UnitDelete(c, i)
    \/ GrowWrite(c)
    \/ GrowRefresh(c)
    \/ ShrinkReset(c)
    \/ DecreaseStore(c)
    \/ Return(c)

\* The scheduler runs every call that can take a step; sync.Mutex hands the
\* mutex to a goroutine that keeps waiting for it (its starvation mode), so
\* a call that finds the mutex free again and again gets it.
Fairness ==
    \A c \in Callers :
        /\ WF_vars(Step(c))
        /\ SF_vars(GrowLock(c) \/ ShrinkLock(c))

\* The runs checked for progress: those of a single caller, and those of two
\* callers on two node groups that share the mutex.
FairInit == Init /\ (callers # Callers \/ nodeGroups = Pools)

FairSpec == FairInit /\ [][Next]_vars /\ Fairness

\* ------------------------------------------------------------ properties
InBounds(p) == minSize[p] <= targetSize[p] /\ targetSize[p] <= maxSize[p]

\* A Grow call that has stored its targetSize (line 123) and not yet returned.
GrowStored(c) ==
    /\ call[c].op = "Grow"
    /\ call[c].pc = "refresh" \/ (call[c].pc = "ret" /\ call[c].result = "ok")

\* C1: in a run of Grow and Shrink calls only, with no failed re-list, every
\* Grow or Shrink call returns with minSize <= targetSize <= maxSize.
C1_BoundsOnReturn ==
    \A c \in callers :
        (clean /\ call[c].pc = "ret" /\ call[c].op \in {"Grow", "Shrink"})
            => InBounds(call[c].pool)

\* C2: no goroutine of one call is running while a goroutine of another
\* call is running.
C2_UnitsSerialized ==
    \A c, d \in callers :
        c # d => ~(InFlight(c) # {} /\ InFlight(d) # {})

\* C2 witness: a Grow has a goroutine running while a Shrink call of the
\* other caller waits for the mutex.
C2_Witness ==
    \E c, d \in callers :
        /\ c # d
        /\ call[c].op = "Grow" /\ InFlight(c) # {}
        /\ call[d].op = "Shrink" /\ call[d].pc = "lock"
        /\ call[d].pool = call[c].pool

\* C3: a Grow that runs with no other call stores the targetSize it read
\* plus delta minus the number of failed goroutines.
C3_GrowAddsDeltaMinusFailed ==
    \A c \in callers :
        (callers = {c} /\ GrowStored(c))
            => targetSize[call[c].pool] = call[c].t0 + call[c].delta - call[c].failed

\* C4 as claimed: after a Grow with f failed goroutines the provider holds
\* delta - f more servers of the node group than when the call took the mutex.
C4_ProviderGainsDeltaMinusFailed ==
    \A c \in callers :
        GrowStored(c)
            => servers[call[c].pool] = call[c].c0 + call[c].delta - call[c].failed

\* C4 amended: the provider holds delta - f more servers, plus one for each
\* failed goroutine whose compensating delete failed.
C4_ProviderGainsDeltaMinusFailedPlusKept ==
    \A c \in callers :
        GrowStored(c)
            => /\ servers[call[c].pool] =
                    call[c].c0 + call[c].delta - call[c].failed + call[c].kept
               /\ call[c].kept <= call[c].failed

\* C4 witness: a Grow of two servers in which one goroutine failed and its
\* server was removed.
C4_Witness ==
    \E c \in callers :
        /\ GrowStored(c)
        /\ call[c].delta = 2 /\ call[c].failed = 1 /\ call[c].kept = 0
        /\ servers[call[c].pool] = call[c].c0 + 1

\* C5: the targetSize a Shrink stores after a successful re-list is the
\* number of servers the provider holds for the node group once every
\* delete goroutine has finished.
C5_ShrinkStoresProviderCount ==
    [][\A c \in callers :
          (/\ call[c].op = "Shrink" /\ call[c].pc = "wait"
           /\ call'[c].pc = "ret" /\ call'[c].relist = "ok")
              => /\ InFlight(c) = {}
                 /\ servers' = servers
                 /\ targetSize'[call[c].pool] = servers[call[c].pool]]_vars

\* C5 witness: a Shrink of two nodes, one delete failed, the re-list
\* succeeded: targetSize is the provider's count and not the old size minus 2.
C5_Witness ==
    \E c \in callers :
        /\ call[c].op = "Shrink" /\ call[c].pc = "ret" /\ call[c].relist = "ok"
        /\ call[c].nodes = 2 /\ call[c].failed = 1
        /\ targetSize[call[c].pool] = servers[call[c].pool]
        /\ targetSize[call[c].pool] # call[c].t0 - call[c].nodes

\* C6: when the re-list of a Shrink of k nodes fails, the call returns with
\* the targetSize it found lowered by k.
C6_FallbackLowersTarget ==
    \A c \in callers :
        (/\ callers = {c}
         /\ call[c].op = "Shrink" /\ call[c].pc = "ret" /\ call[c].relist = "failed")
            => /\ targetSize[call[c].pool] = call[c].t0 - call[c].nodes
               /\ targetSize[call[c].pool] <= call[c].t0

GrowRejections == {"errDelta", "errMax"}

\* C7: a Grow with delta <= 0 or with targetSize + delta > maxSize returns an
\* error; it changes neither targetSize nor the provider's servers, starts no
\* goroutine, does not refill the cache and never holds the mutex.
C7_GrowRejectedNoEffect ==
    [][\A c \in callers :
          /\ (/\ call[c].pc = "idle" /\ call'[c].op = "Grow"
              /\ \/ call'[c].delta <= 0
                 \/ targetSize[call'[c].pool] + call'[c].delta > maxSize[call'[c].pool])
                 => /\ call'[c].pc = "ret"
                    /\ call'[c].result \in GrowRejections
                    /\ call'[c].units = NoUnits /\ call'[c].refill = "none"
                    /\ UNCHANGED <<targetSize, servers, mutex>>
                    /\ mutex' # c
          /\ (/\ call[c].op = "Grow" /\ call[c].pc = "ret"
              /\ call[c].result \in GrowRejections /\ call'[c].pc = "idle")
                 => /\ UNCHANGED <<targetSize, servers, mutex>>
                    /\ mutex' # c]_vars

\* C7 witness: one caller's Grow was refused for its delta, another's for
\* exceeding maxSize.
C7_Witness ==
    \E c, d \in callers :
        /\ call[c].op = "Grow" /\ call[c].pc = "ret" /\ call[c].result = "errDelta"
        /\ call[c].delta <= 0
        /\ call[d].op = "Grow" /\ call[d].pc = "ret" /\ call[d].result = "errMax"
        /\ targetSize[call[d].pool] + call[d].delta > maxSize[call[d].pool]

\* C8: a Shrink with targetSize - len(nodes) < minSize returns an error; it
\* starts no delete goroutine, changes neither targetSize nor the provider's
\* servers, makes no re-list, and its return releases the mutex.
C8_ShrinkRejectedNoEffect ==
    [][\A c \in callers :
          /\ (/\ call[c].op = "Shrink" /\ call[c].pc = "lock" /\ call'[c].pc # "lock"
              /\ targetSize[call[c].pool] - call[c].nodes < minSize[call[c].pool])
                 => /\ call'[c].pc = "ret" /\ call'[c].result = "errMin"
                    /\ call'[c].units = NoUnits
                    /\ call'[c].relist = "none" /\ call'[c].refill = "none"
                    /\ UNCHANGED <<targetSize, servers>>
          /\ (/\ call[c].op = "Shrink" /\ call[c].pc = "ret"
              /\ call[c].result = "errMin" /\ call'[c].pc = "idle")
                 => /\ mutex = c /\ mutex' = NoOwner
                    /\ UNCHANGED <<targetSize, servers>>]_vars

\* C8 witness: a Shrink below minSize was refused and is about to return.
C8_Witness ==
    \E c \in callers :
        /\ call[c].op = "Shrink" /\ call[c].pc = "ret" /\ call[c].result = "errMin"
        /\ call[c].nodes >= 1
        /\ targetSize[call[c].pool] - call[c].nodes < minSize[call[c].pool]
        /\ call[c].units = NoUnits /\ mutex = c

LookupRejections == {"errLookup", "errUnavailable"}

\* C9: a Grow whose server type lookup fails, or whose server type has no
\* pricing in the region of the node group, returns an error; it starts no
\* goroutine, changes neither targetSize nor the provider's servers, and its
\* return releases the mutex.
C9_GrowUnavailableNoEffect ==
    [][\A c \in callers :
          /\ (/\ call[c].op = "Grow" /\ call[c].pc = "checked" /\ call'[c].pc # "checked"
              /\ \/ call[c].lookup.err
                 \/ region[call[c].pool] \notin call[c].lookup.pricings)
                 => /\ call'[c].pc = "ret"
                    /\ call'[c].result =
                          IF call[c].lookup.err THEN "errLookup" ELSE "errUnavailable"
                    /\ call'[c].units = NoUnits /\ call'[c].refill = "none"
                    /\ UNCHANGED <<targetSize, servers>>
          /\ (/\ call[c].op = "Grow" /\ call[c].pc = "ret"
              /\ call[c].result \in LookupRejections /\ call'[c].pc = "idle")
                 => /\ mutex = c /\ mutex' = NoOwner
                    /\ UNCHANGED <<targetSize, servers>>]_vars

\* C9 witness: a Grow was refused because the server type has pricings, none
\* of them in the region of the node group.
C9_Witness ==
    \E c \in callers :
        /\ call[c].op = "Grow" /\ call[c].pc = "ret"
        /\ call[c].result = "errUnavailable"
        /\ call[c].lookup.pricings # {}
        /\ region[call[c].pool] \notin call[c].lookup.pricings
        /\ call[c].units = NoUnits /\ mutex = c

\* C10: the wait on an action ends in exactly one of Success, Failed and
\* TimedOut: Success for a stream closed with nothing sent and for a stream
\* that sends nil, Failed for one that sends an error, TimedOut for one that
\* stays open and silent.
C10_WaiterClassifies ==
    \A c \in callers : \A i \in DOMAIN call[c].units :
        call[c].units[i].pc = "awaited"
            => LET u == call[c].units[i]
               IN  /\ u.outcome \in {"Success", "Failed", "TimedOut"}
                   /\ u.stream \in {"closed", "nil"} => u.outcome = "Success"
                   /\ u.stream = "error" => u.outcome = "Failed"
                   /\ u.stream = "silent" => u.outcome = "TimedOut"

\* C10 witness: of two waits of one Grow, one saw its stream closed with
\* nothing sent and ended in Success, the other saw nothing and timed out.
C10_Witness ==
    \E c \in callers : \E i, j \in DOMAIN call[c].units :
        /\ call[c].units[i].pc = "awaited" /\ call[c].units[j].pc = "awaited"
        /\ call[c].units[i].stream = "closed" /\ call[c].units[i].outcome = "Success"
        /\ call[c].units[j].stream = "silent" /\ call[c].units[j].outcome = "TimedOut"

\* A Grow or Shrink call that passed its checks and started its goroutines.
Accepted(c) == call[c].op \in {"Grow", "Shrink"} /\ DOMAIN call[c].units # {}

\* C11: a Grow that passed the size checks and the server type check returns
\* success, however many of its goroutines failed and whether or not the
\* refill of the servers cache failed.
C11_GrowAcceptedReturnsOk ==
    \A c \in callers :
        (call[c].op = "Grow" /\ Accepted(c))
            => /\ call[c].pc = "ret" => call[c].result = "ok"
               /\ call[c].pc # "ret" => call[c].result = "none"

\* C11 witness: a Grow of two servers returns success although both
\* goroutines failed and the refill of the cache failed.
C11_Witness ==
    \E c \in callers :
        /\ call[c].op = "Grow" /\ call[c].pc = "ret" /\ call[c].result = "ok"
        /\ call[c].delta = 2 /\ call[c].failed = 2 /\ call[c].refill = "failed"

C13_DecreaseOnlyAddsDelta ==
    [][\A c \in callers :
          /\ call[c].op = "Decrease" => mutex # c
          /\ (call[c].pc = "idle" /\ call'[c].op = "Decrease")
                 => /\ UNCHANGED <<targetSize, servers, mutex>>
                    /\ call'[c].t0 = targetSize[call'[c].pool]
          /\ (call[c].op = "Decrease" /\ call[c].pc = "store")
                 => ENABLED DecreaseStore(c)
          /\ (call[c].op = "Decrease" /\ call[c].pc = "store" /\ call'[c].pc # "store")
                 => /\ targetSize' = [targetSize EXCEPT ![call[c].pool] =
                                          call[c].t0 + call[c].delta]
                    /\ callers = {c} => call[c].t0 = targetSize[call[c].pool]
                    /\ call'[c].pc = "ret" /\ call'[c].result = "ok"
                    /\ call'[c].units = NoUnits
                    /\ call'[c].refill = "none" /\ call'[c].relist = "none"
                    /\ UNCHANGED <<servers, mutex>>
          /\ (call[c].op = "Decrease" /\ call[c].pc = "ret" /\ call'[c].pc # "ret")
                 => UNCHANGED <<targetSize, servers, mutex>>]_vars

\* C13 witness: a DecreaseTargetSize has stored a targetSize below minSize
\* and returns success while a Grow of the other caller holds the mutex and
\* has a goroutine running.
C13_Witness ==
    \E c, d \in callers :
        /\ call[c].op = "Decrease" /\ call[c].pc = "ret" /\ call[c].result = "ok"
        /\ targetSize[call[c].pool] = call[c].t0 + call[c].delta
        /\ targetSize[call[c].pool] < minSize[call[c].pool]
        /\ mutex = d /\ call[d].op = "Grow" /\ InFlight(d) # {}
        /\ call[d].pool = call[c].pool

\* C14: a TargetSize call returns the targetSize of the node group and
\* changes nothing, neither of the node group nor of the provider nor of
\* another call; called again with no other call in between, it returns the
\* same value.
C14_TargetSizePureRead ==
    [][\A c \in callers :
          (call'[c].op = "TargetSize" /\ call'[c] # call[c])
              => /\ UNCHANGED <<Config, targetSize, mutex, servers, clean>>
                 /\ \A d \in Callers \ {c} : call'[d] = call[d]
                 /\ call'[c].ts = targetSize[call'[c].pool]
                 /\ call'[c].result = "ok"
                 /\ (callers = {c} /\ call'[c].again) => call'[c].ts = call'[c].t0]_vars

\* C14 witness: the only caller has called TargetSize twice in a row on a
\* node group whose targetSize differs from the provider's count, and got
\* the same value.
C14_Witness ==
    \E c \in callers :
        /\ callers = {c}
        /\ call[c].op = "TargetSize" /\ call[c].pc = "ret" /\ call[c].again
        /\ call[c].ts = call[c].t0 /\ call[c].ts = targetSize[call[c].pool]
        /\ targetSize[call[c].pool] # servers[call[c].pool]

\* A Grow or Shrink call that has read or written targetSize and has not
\* returned: a Grow from its size check on (line 91), a Shrink from its size
\* check on (line 141).
AccessedSize(c) ==
    \/ call[c].op = "Grow" /\ call[c].pc # "idle" /\ call[c].result # "errDelta"
    \/ call[c].op = "Shrink" /\ call[c].pc \notin {"idle", "lock"}

\* C15: a Grow or Shrink call that has read or written targetSize holds the
\* mutex, from its first read for the size check to its final write.
C15_SizeAccessUnderLock ==
    \A c \in callers : AccessedSize(c) => mutex = c

\* C16: when a Grow or Shrink call writes its final targetSize, and from
\* then until it has returned and released the mutex, none of the goroutines
\* it started is running; a goroutine runs only while its call holds the
\* mutex.
C16_UnitsJoinedBeforeReturn ==
    \A c \in callers :
        /\ (call[c].op \in {"Grow", "Shrink"} /\ call[c].pc \in {"refresh", "ret"})
               => InFlight(c) = {}
        /\ InFlight(c) # {} => mutex = c /\ call[c].pc = "wait"
        /\ call[c].pc = "idle" => call[c].units = NoUnits

\* C16 witness: a Grow of two servers has stored its targetSize after both
\* of its goroutines, one of them failed, have finished.
C16_Witness ==
    \E c \in callers :
        /\ GrowStored(c) /\ call[c].pc = "refresh"
        /\ call[c].delta = 2 /\ call[c].tried = 2 /\ call[c].failed = 1
        /\ InFlight(c) = {}

\* C17: a goroutine of a Grow deletes the server it created exactly when the
\* create request succeeded and the wait for the action ended in Failed or
\* TimedOut; it deletes nothing when the create request failed or the wait
\* ended in Success. It counts as failed whether or not the delete succeeds,
\* and the Grow returns success also when the delete failed.
C17_CompensatingDelete ==
    [][\A c \in callers :
          /\ (call[c].op = "Grow" /\ call[c].kept > 0 /\ call[c].pc = "ret")
                 => call[c].result = "ok"
          /\ \A i \in DOMAIN call[c].units :
                LET p      == call[c].pool
                    issued == \/ servers'[p] = servers[p] - 1 /\ call'[c].kept = call[c].kept
                              \/ servers'[p] = servers[p] /\ call'[c].kept = call[c].kept + 1
                    none   == servers' = servers /\ call'[c].kept = call[c].kept
                IN  /\ (call[c].units[i].pc = "awaited" /\ call'[c].units[i].pc # "awaited")
                       => IF call[c].units[i].outcome \in {"Failed", "TimedOut"}
                          THEN /\ issued
                               /\ call'[c].failed = call[c].failed + 1
                               /\ call'[c].units[i].pc = "decRead"
                          ELSE /\ none
                               /\ call'[c].failed = call[c].failed
                               /\ call'[c].units[i].pc = "done"
                    /\ (call[c].units[i].pc = "create"
                        /\ call'[c].units[i].pc \notin {"create", "await"})
                       => /\ none
                          /\ call'[c].failed = call[c].failed + 1
                          /\ call'[c].units[i].pc = "decRead"]_vars

\* C17 witness: a goroutine whose wait timed out and whose compensating
\* delete failed is counted as failed, next to one whose create request
\* failed.
C17_Witness ==
    \E c \in callers : \E i, j \in DOMAIN call[c].units :
        /\ call[c].op = "Grow" /\ call[c].pc = "wait"
        /\ call[c].units[i].pc = "decRead" /\ call[c].units[j].pc = "decRead"
        /\ i # j /\ call[c].failed = 2 /\ call[c].kept = 1 /\ call[c].tried = 2
        /\ servers[call[c].pool] = call[c].c0 + 1

\* C18: with fair scheduling every Grow and Shrink call returns; the return
\* of a call that took the mutex releases it, whether the call ends in a
\* size error, a server type error or success; and a call that waits for the
\* mutex gets it.
C18_CallsReturnAndUnlock ==
    /\ \A c \in Callers :
          (call[c].op \in {"Grow", "Shrink"}) ~> (call[c].pc = "idle" /\ mutex # c)
    /\ [][\A c \in Callers :
            (call[c].pc = "ret" /\ call'[c].pc = "idle") => mutex' # c]_vars

\* C18 witness: a Grow waits for the mutex while the other caller's Grow,
\* refused for its server type, holds it and is about to return.
C18_Witness ==
    \E c, d \in callers :
        /\ call[c].op = "Grow" /\ call[c].pc = "lock"
        /\ mutex = d /\ call[d].op = "Grow" /\ call[d].pc = "ret"
        /\ call[d].result = "errUnavailable"

\* The lifecycle status an instance carries.
Lifecycle(st) ==
    IF st.nil THEN "none"
    ELSE IF st.ErrorInfo THEN "UnknownWithError"
    ELSE IF st.State = "InstanceCreating" THEN "Creating"
    ELSE IF st.State = "InstanceRunning" THEN "Running"
    ELSE IF st.State = "InstanceDeleting" THEN "Deleting"
    ELSE "none"

\* C19: every instance that Nodes returns carries the status Creating,
\* Running, Deleting or Unknown-with-error: Creating for a server that is
\* initializing or starting, Running for a running one, Deleting for one that
\* is stopping or deleting, Unknown-with-error for every other status, off
\* and the empty status among them.
C19_StatusMapping ==
    \A c \in callers :
        (call[c].op = "Nodes" /\ call[c].result = "ok")
            => \A i \in DOMAIN call[c].instances :
                 LET vm == call[c].vms[i]
                     st == Lifecycle(call[c].instances[i])
                 IN  st = CASE vm \in {"initializing", "starting"} -> "Creating"
                            [] vm = "running" -> "Running"
                            [] vm \in {"stopping", "deleting"} -> "Deleting"
                            [] OTHER -> "UnknownWithError"

\* C20: no update of targetSize is lost when Grow and DecreaseTargetSize
\* calls interleave: the store of a Grow changes targetSize by what the call
\* adds, its delta less the decrements of its failed goroutines, and the store
\* of a DecreaseTargetSize changes it by its delta, as they do when the calls
\* run one after the other.
C20_NoLostUpdate ==
    [][\A c \in callers :
          /\ (call[c].op = "Grow" /\ call[c].pc = "wait" /\ call'[c].pc = "refresh")
                 => targetSize'[call[c].pool] =
                        targetSize[call[c].pool] + (call[c].ts - call[c].t0)
          /\ (call[c].op = "Decrease" /\ call[c].pc = "store" /\ call'[c].pc = "ret")
                 => targetSize'[call[c].pool] =
                        targetSize[call[c].pool] + call[c].delta]_vars

====
